---- MODULE Spec2Model ----
(***************************************************************************)
(* The immersed-boundary coupling driver FSI<dim> of source/fsi.cpp:        *)
(* run() and the five operations it sequences, over a small solid mesh      *)
(* (one row of quadrilateral cells with shared vertices) immersed in a      *)
(* fluid mesh (one row of quadrilateral cells).                             *)
(*                                                                          *)
(* Coordinates, displacements and times are integers: coordinates live on   *)
(* a grid on which the additions of move_solid_mesh are exact, and time is  *)
(* counted in units of the loop guard's tolerance.  The tensor values the   *)
(* transfers push are abstracted to the place they were computed at (cell,  *)
(* face, quadrature index): the sequences keep their length and order.      *)
(***************************************************************************)
EXTENDS Integers, Sequences, FiniteSets, TLC

(* ------------------------------ bounds --------------------------------- *)
\* number of active cells of the solid triangulation (one row)
NSolid == 2
\* number of active cells of the fluid triangulation (one row)
NFluid == 3
\* largest end time drawn for parameters.end_time, in tolerance units
MaxEnd == 6

(* ---------------------------- program constants ------------------------ *)
\* template class FSI<2>
dim == 2
\* the slack of the loop guard, time.end() - time.current() > 1e-12: the time unit
Tol == 1

\* GeometryInfo<dim>::vertices_per_cell and ::faces_per_cell
vertices_per_cell == 2 ^ dim
faces_per_cell == 2 * dim

(* ------------------------------ meshes --------------------------------- *)
FluidCellSize == <<8, 8>>
SolidCellSize == <<6, 4>>

FluidCells == 1..NFluid
SolidCells == 1..NSolid
\* solid_solver.triangulation.n_vertices(): two rows of NSolid + 1 vertices
n_vertices == 2 * (NSolid + 1)
Vertices == 1..n_vertices
Dofs == 1..(dim * n_vertices)

Col(n) == (n - 1) % (NSolid + 1)
Row(n) == (n - 1) \div (NSolid + 1)

\* cell->vertex_index(v): lexicographic vertex numbering of a cell, v in 0..3
vertex_index(cell, v) == (cell + (v % 2)) + (v \div 2) * (NSolid + 1)

\* cell->vertex_dof_index(v, d): the dof of component d at vertex v
vertex_dof_index(cell, v, d) == dim * (vertex_index(cell, v) - 1) + d + 1

\* the solid triangulation as generated, with its lower left corner at origin
SolidMeshAt(origin) ==
  [n \in Vertices |-> <<origin[1] + SolidCellSize[1] * Col(n),
                        origin[2] + SolidCellSize[2] * Row(n)>>]

\* one mesh inside the fluid domain, one whose last cell sticks out of it
SolidMeshes ==
  { SolidMeshAt(<<2, 2>>),
    SolidMeshAt(<<FluidCellSize[1] * NFluid - SolidCellSize[1], 2>>) }

\* the four vertices of a fluid cell (the fluid mesh never moves)
FluidCellVertices(e) ==
  << <<FluidCellSize[1] * (e - 1), 0>>, <<FluidCellSize[1] * e, 0>>,
     <<FluidCellSize[1] * (e - 1), FluidCellSize[2]>>,
     <<FluidCellSize[1] * e, FluidCellSize[2]>> >>

\* the four vertices of a solid cell at the coordinates vtx
SolidCellVertices(vtx, cell) ==
  << vtx[vertex_index(cell, 0)], vtx[vertex_index(cell, 1)],
     vtx[vertex_index(cell, 2)], vtx[vertex_index(cell, 3)] >>

\* fluid_solver.volume_quad_formula: a 2 x 2 rule, as offsets in a fluid cell
VolumeQuadOffsets == << <<2, 2>>, <<6, 2>>, <<2, 6>>, <<6, 6>> >>
n_q_points == Len(VolumeQuadOffsets)

\* fe_values.quadrature_point(q) after fe_values.reinit(f_cell)
quadrature_point(f_cell, q) ==
  <<FluidCellSize[1] * (f_cell - 1) + VolumeQuadOffsets[q][1],
    VolumeQuadOffsets[q][2]>>

\* solid_solver.face_quad_formula: a 2 point rule, as quarters along the face
FaceQuadQuarters == <<1, 3>>
n_face_q_points == Len(FaceQuadQuarters)

\* the two end vertices (local numbers) of face f of a cell
FaceVertices(f) ==
  CASE f = 0 -> <<0, 2>>
    [] f = 1 -> <<1, 3>>
    [] f = 2 -> <<0, 1>>
    [] OTHER -> <<2, 3>>

\* fe_face_values.quadrature_point(q) after fe_face_values.reinit(s_cell, f)
face_quadrature_point(vtx, s_cell, f, q) ==
  LET a == vtx[vertex_index(s_cell, FaceVertices(f)[1])]
      b == vtx[vertex_index(s_cell, FaceVertices(f)[2])]
  IN  <<a[1] + ((b[1] - a[1]) * FaceQuadQuarters[q]) \div 4,
        a[2] + ((b[2] - a[2]) * FaceQuadQuarters[q]) \div 4>>

\* s_cell->face(f)->at_boundary(): faces 0 and 1 are shared inside the row
at_boundary(s_cell, f) ==
  CASE f = 0 -> s_cell = 1
    [] f = 1 -> s_cell = NSolid
    [] OTHER -> TRUE

\* s_cell->face(f)->boundary_id(): left 0, right 1, bottom 2, top 3
boundary_id(s_cell, f) == f

\* cell->point_inside(point): the closed convex quadrilateral with vertices
\* quad (lexicographic), by the sign of the cross product along its boundary
Cross(a, b, p) == (b[1] - a[1]) * (p[2] - a[2]) - (b[2] - a[2]) * (p[1] - a[1])

point_inside(quad, point) ==
  /\ Cross(quad[1], quad[2], point) >= 0
  /\ Cross(quad[2], quad[4], point) >= 0
  /\ Cross(quad[4], quad[3], point) >= 0
  /\ Cross(quad[3], quad[1], point) >= 0

(* --------------------------- displacement fields ----------------------- *)
\* the field with displacement g[n] at vertex n, as a vector over the dofs
FieldOf(g) == [k \in Dofs |-> g[((k - 1) \div dim) + 1][((k - 1) % dim) + 1]]

\* the displacement fields solid_solver.run_one_step may leave behind
DisplacementFields ==
  { FieldOf([n \in Vertices |-> <<0, 0>>]),
    FieldOf([n \in Vertices |-> <<4, 0>>]),
    FieldOf([n \in Vertices |-> <<8, 0>>]),
    FieldOf([n \in Vertices |-> <<0, 1>>]),
    FieldOf([n \in Vertices |->
               IF 0 < Col(n) /\ Col(n) < NSolid THEN <<1, 0>> ELSE <<0, 0>>]),
    FieldOf([n \in Vertices |-> IF Row(n) = 1 THEN <<4, 0>> ELSE <<0, 0>>]) }

\* parameters.solid_dirichlet_bcs: the boundary ids with a Dirichlet condition
DirichletSets == { {}, {0}, {2, 3}, {0, 1, 2, 3} }

\* parameters.time_step
TimeSteps == {2, 3}

(* ------------------------------- state --------------------------------- *)
VARIABLES
  pc,                    \* the statement of run() that executes next
  end_time,              \* time.end(), from parameters.end_time
  delta_t,               \* time.get_delta_t(), from parameters.time_step
  time_current,          \* time.current()
  timestep,              \* the number of time.increment() calls so far
  first_step,            \* the local first_step of run()
  solid_dirichlet_bcs,   \* the keys of parameters.solid_dirichlet_bcs
  reference,             \* the solid triangulation's vertices as generated
  vertex,                \* the solid triangulation's vertices now
  current_displacement,  \* solid_solver.current_displacement, over the dofs
  indicator,             \* fluid_solver.cell_property[f_cell]->indicator
  fluid_traction,        \* solid_solver.fluid_traction
  fsi_stress,            \* fluid_solver.fsi_stress
  fsi_acceleration,      \* fluid_solver.fsi_acceleration
  exc                    \* the exception that left run(), if any

vars == <<pc, end_time, delta_t, time_current, timestep, first_step,
          solid_dirichlet_bcs, reference, vertex, current_displacement,
          indicator, fluid_traction, fsi_stress, fsi_acceleration, exc>>

NoException == <<>>

(* --------------------------- move_solid_mesh --------------------------- *)
\* the displacement read at a vertex of a cell: one value per component d
vertex_displacement(disp, cell, v) ==
  [d \in 1..dim |-> disp[vertex_dof_index(cell, v, d - 1)]]

ApplyAlwaysForward(point, displacement, move_forward) ==
  [d \in 1..dim |-> point[d] + displacement[d]]

\* cell->vertex(v) += vertex_displacement, or -= when not move_forward
ApplyDisplacement(point, displacement, move_forward) ==
  [d \in 1..dim |->
     IF move_forward THEN point[d] + displacement[d]
                     ELSE point[d] - displacement[d]]

NeverTouched(vertex_touched, n) == FALSE

\* vertex_touched[cell->vertex_index(v)]
IsTouched(vertex_touched, n) == n \in vertex_touched

\* the loop over the active cells and their vertices, from visit k on: visit k
\* is vertex (k - 1) % vertices_per_cell of cell (k - 1) \div vertices_per_cell + 1
RECURSIVE MoveVisits(_, _, _, _, _)
MoveVisits(k, vtx, vertex_touched, disp, move_forward) ==
  IF k > NSolid * vertices_per_cell
  THEN vtx
  ELSE LET cell == ((k - 1) \div vertices_per_cell) + 1
           v == (k - 1) % vertices_per_cell
           n == vertex_index(cell, v)
       IN  IF ~IsTouched(vertex_touched, n)
           THEN MoveVisits(k + 1,
                           [vtx EXCEPT ![n] = ApplyDisplacement(
                              vtx[n], vertex_displacement(disp, cell, v),
                              move_forward)],
                           vertex_touched \cup {n}, disp, move_forward)
           ELSE MoveVisits(k + 1, vtx, vertex_touched, disp, move_forward)

move_solid_mesh(vtx, disp, move_forward) ==
  MoveVisits(1, vtx, {}, disp, move_forward)

(* ---------------------------- point_in_mesh ---------------------------- *)
\* the first active cell that contains the point decides; none: false
RECURSIVE PointInCellsFrom(_, _, _)
PointInCellsFrom(cell, vtx, point) ==
  IF cell > NSolid THEN FALSE
  ELSE IF point_inside(SolidCellVertices(vtx, cell), point) THEN TRUE
  ELSE PointInCellsFrom(cell + 1, vtx, point)

\* point_in_mesh(solid_solver.dof_handler, point) on the coordinates vtx
point_in_mesh(vtx, point) == PointInCellsFrom(1, vtx, point)

(* --------------------------- update_indicator -------------------------- *)
AnyPointInside(vtx, f_cell, q) ==
  \E r \in 1..n_q_points : point_in_mesh(vtx, quadrature_point(f_cell, r))

\* the loop over the quadrature points of f_cell from q on: the first point
\* that is not in the solid mesh makes is_solid false and ends the loop
RECURSIVE is_solid(_, _, _)
is_solid(vtx, f_cell, q) ==
  IF q > n_q_points THEN TRUE
  ELSE IF ~point_in_mesh(vtx, quadrature_point(f_cell, q)) THEN FALSE
  ELSE is_solid(vtx, f_cell, q + 1)

\* p[0]->indicator = (is_solid ? 1 : 0), for every active fluid cell
ClassifyCells(vtx) ==
  [f_cell \in FluidCells |-> IF is_solid(vtx, f_cell, 1) THEN 1 ELSE 0]

(* -------------------------- VectorTools lookups ------------------------ *)
\* VectorTools::point_value / point_gradient on the solid dof handlers: the
\* point has to lie in an active cell of the solid mesh as it stands
SolidPointAvailable(vtx, point) ==
  \E cell \in SolidCells : point_inside(SolidCellVertices(vtx, cell), point)

\* the same on fluid_solver.dof_handler
FluidPointAvailable(point) ==
  \E e \in FluidCells : point_inside(FluidCellVertices(e), point)

(* ---------------------------- find_fluid_fsi --------------------------- *)
SkipEveryCell(ind, f_cell) == TRUE

\* if (ptr[0]->indicator == 0) continue;
SkipFluidCell(ind, f_cell) == ind[f_cell] = 0

\* the loops over the active fluid cells and their quadrature points, from
\* visit k on; a point the solid lookup cannot find throws out of the loops
RECURSIVE FsiVisits(_, _, _, _, _)
FsiVisits(k, vtx, ind, stress, acceleration) ==
  IF k > NFluid * n_q_points
  THEN [threw |-> FALSE, stress |-> stress, acceleration |-> acceleration,
        point |-> NoException]
  ELSE LET f_cell == ((k - 1) \div n_q_points) + 1
           q == ((k - 1) % n_q_points) + 1
           q_point == quadrature_point(f_cell, q)
       IN  IF SkipFluidCell(ind, f_cell)
           THEN FsiVisits(k + 1, vtx, ind, stress, acceleration)
           ELSE IF ~SolidPointAvailable(vtx, q_point)
           THEN [threw |-> TRUE, stress |-> stress,
                 acceleration |-> acceleration, point |-> q_point]
           ELSE FsiVisits(k + 1, vtx, ind,
                          Append(stress, <<f_cell, q>>),
                          Append(acceleration, <<f_cell, q>>))

\* fsi_stress.clear(); fsi_acceleration.clear(); then the loops
find_fluid_fsi(vtx, ind, stress, acceleration) ==
  FsiVisits(1, vtx, ind, <<>>, <<>>)

(* ----------------------------- find_solid_bc --------------------------- *)
AnyBoundaryFace(s_cell, f, dirichlet) == at_boundary(s_cell, f)

\* the face is at the boundary and its id is no key of solid_dirichlet_bcs
FaceTakesTraction(s_cell, f, dirichlet) ==
  at_boundary(s_cell, f) /\ boundary_id(s_cell, f) \notin dirichlet

\* the loops over the active solid cells, their faces and the face quadrature
\* points, from visit k on; a point the fluid lookup cannot find throws
RECURSIVE BcVisits(_, _, _, _)
BcVisits(k, vtx, dirichlet, traction) ==
  IF k > NSolid * faces_per_cell * n_face_q_points
  THEN [threw |-> FALSE, traction |-> traction, point |-> NoException]
  ELSE LET s_cell == ((k - 1) \div (faces_per_cell * n_face_q_points)) + 1
           f == ((k - 1) \div n_face_q_points) % faces_per_cell
           q == ((k - 1) % n_face_q_points) + 1
           q_point == face_quadrature_point(vtx, s_cell, f, q)
       IN  IF ~FaceTakesTraction(s_cell, f, dirichlet)
           THEN BcVisits(k + 1, vtx, dirichlet, traction)
           ELSE IF ~FluidPointAvailable(q_point)
           THEN [threw |-> TRUE, traction |-> traction, point |-> q_point]
           ELSE BcVisits(k + 1, vtx, dirichlet,
                         Append(traction, <<s_cell, f, q>>))

\* traction.clear(); then the loops
find_solid_bc(vtx, dirichlet, traction) == BcVisits(1, vtx, dirichlet, <<>>)

(* --------------------------------- run --------------------------------- *)
RunBodySwapped ==
  << "find_solid_bc", "solid_run_one_step", "find_fluid_fsi",
     "update_indicator", "fluid_run_one_step", "increment" >>

\* the statements of the loop body of run(), in program order
RunBody ==
  << "find_solid_bc", "solid_run_one_step", "update_indicator",
     "find_fluid_fsi", "fluid_run_one_step", "increment" >>

\* the statement that executes after statement op of the loop body returns:
\* the next one of the body, or the loop guard after the last
Following(op) ==
  LET i == CHOOSE j \in 1..Len(RunBody) : RunBody[j] = op
  IN  IF i < Len(RunBody) THEN RunBody[i + 1] ELSE "while"

\* FSI's constructor and the start of run(): the parameters are read, both
\* meshes are built and the solid is undisplaced, time is at 0, first_step is
\* true; the indicator of a fluid cell holds whatever the fluid solver set
Init ==
  /\ pc = "while"
  /\ end_time \in 1..MaxEnd
  /\ delta_t \in TimeSteps
  /\ time_current = 0
  /\ timestep = 0
  /\ first_step = TRUE
  /\ solid_dirichlet_bcs \in DirichletSets
  /\ reference \in SolidMeshes
  /\ vertex = reference
  /\ current_displacement = [k \in Dofs |-> 0]
  /\ indicator \in [FluidCells -> {0, 1}]
  /\ fluid_traction = <<>>
  /\ fsi_stress = <<>>
  /\ fsi_acceleration = <<>>
  /\ exc = NoException

\* while (time.end() - time.current() > 1e-12)
LoopGuard ==
  /\ pc = "while"
  /\ pc' = IF end_time - time_current > Tol THEN RunBody[1] ELSE "done"
  /\ UNCHANGED <<end_time, delta_t, time_current, timestep, first_step,
                 solid_dirichlet_bcs, reference, vertex, current_displacement,
                 indicator, fluid_traction, fsi_stress, fsi_acceleration, exc>>

\* find_solid_bc(traction); solid_solver.fluid_traction = traction;
\* an exception of the fluid lookup leaves run() before the assignment
FindSolidBc ==
  /\ pc = "find_solid_bc"
  /\ LET r == find_solid_bc(vertex, solid_dirichlet_bcs, <<>>)
     IN  IF r.threw
         THEN /\ pc' = "aborted"
              /\ exc' = r.point
              /\ UNCHANGED fluid_traction
         ELSE /\ pc' = Following("find_solid_bc")
              /\ fluid_traction' = r.traction
              /\ UNCHANGED exc
  /\ UNCHANGED <<end_time, delta_t, time_current, timestep, first_step,
                 solid_dirichlet_bcs, reference, vertex, current_displacement,
                 indicator, fsi_stress, fsi_acceleration>>

\* solid_solver.run_one_step(first_step): the solid solver leaves a new
\* displacement field behind
SolidRunOneStep ==
  /\ pc = "solid_run_one_step"
  /\ current_displacement' \in DisplacementFields
  /\ pc' = Following("solid_run_one_step")
  /\ UNCHANGED <<end_time, delta_t, time_current, timestep, first_step,
                 solid_dirichlet_bcs, reference, vertex, indicator,
                 fluid_traction, fsi_stress, fsi_acceleration, exc>>

\* update_indicator(), first statement: move_solid_mesh(true)
UpdateIndicatorMove ==
  /\ pc = "update_indicator"
  /\ vertex' = move_solid_mesh(vertex, current_displacement, TRUE)
  /\ pc' = "update_indicator_classify"
  /\ UNCHANGED <<end_time, delta_t, time_current, timestep, first_step,
                 solid_dirichlet_bcs, reference, current_displacement,
                 indicator, fluid_traction, fsi_stress, fsi_acceleration, exc>>

\* update_indicator(), the loop over the fluid cells
UpdateIndicatorClassify ==
  /\ pc = "update_indicator_classify"
  /\ indicator' = ClassifyCells(vertex)
  /\ pc' = "update_indicator_restore"
  /\ UNCHANGED <<end_time, delta_t, time_current, timestep, first_step,
                 solid_dirichlet_bcs, reference, vertex, current_displacement,
                 fluid_traction, fsi_stress, fsi_acceleration, exc>>

UpdateIndicatorNoRestore ==
  /\ pc = "update_indicator_restore"
  /\ pc' = Following("update_indicator")
  /\ UNCHANGED <<end_time, delta_t, time_current, timestep, first_step,
                 solid_dirichlet_bcs, reference, vertex, current_displacement,
                 indicator, fluid_traction, fsi_stress, fsi_acceleration, exc>>

\* update_indicator(), last statement: move_solid_mesh(false)
UpdateIndicatorRestore ==
  /\ pc = "update_indicator_restore"
  /\ vertex' = move_solid_mesh(vertex, current_displacement, FALSE)
  /\ pc' = Following("update_indicator")
  /\ UNCHANGED <<end_time, delta_t, time_current, timestep, first_step,
                 solid_dirichlet_bcs, reference, current_displacement,
                 indicator, fluid_traction, fsi_stress, fsi_acceleration, exc>>

\* find_fluid_fsi(fsi_stress, fsi_acceleration); fluid_solver.fsi_stress =
\* fsi_stress; fluid_solver.fsi_acceleration = fsi_acceleration; an exception
\* of the solid lookup leaves run() before the assignments
FindFluidFsi ==
  /\ pc = "find_fluid_fsi"
  /\ LET r == find_fluid_fsi(vertex, indicator, <<>>, <<>>)
     IN  IF r.threw
         THEN /\ pc' = "aborted"
              /\ exc' = r.point
              /\ UNCHANGED <<fsi_stress, fsi_acceleration>>
         ELSE /\ pc' = Following("find_fluid_fsi")
              /\ fsi_stress' = r.stress
              /\ fsi_acceleration' = r.acceleration
              /\ UNCHANGED exc
  /\ UNCHANGED <<end_time, delta_t, time_current, timestep, first_step,
                 solid_dirichlet_bcs, reference, vertex, current_displacement,
                 indicator, fluid_traction>>

\* fluid_solver.run_one_step(first_step); first_step = false;
FluidRunOneStep ==
  /\ pc = "fluid_run_one_step"
  /\ first_step' = FALSE
  /\ pc' = Following("fluid_run_one_step")
  /\ UNCHANGED <<end_time, delta_t, time_current, timestep,
                 solid_dirichlet_bcs, reference, vertex, current_displacement,
                 indicator, fluid_traction, fsi_stress, fsi_acceleration, exc>>

\* time.increment(): the current time advances by the step size
TimeIncrement ==
  /\ pc = "increment"
  /\ time_current' = time_current + delta_t
  /\ timestep' = timestep + 1
  /\ pc' = Following("increment")
  /\ UNCHANGED <<end_time, delta_t, first_step, solid_dirichlet_bcs,
                 reference, vertex, current_displacement, indicator,
                 fluid_traction, fsi_stress, fsi_acceleration, exc>>

Next ==
  \/ LoopGuard
  \/ FindSolidBc
  \/ SolidRunOneStep
  \/ UpdateIndicatorMove
  \/ UpdateIndicatorClassify
  \/ UpdateIndicatorRestore
  \/ FindFluidFsi
  \/ FluidRunOneStep
  \/ TimeIncrement

Spec == Init /\ [][Next]_vars

(* ------------------------------- claims -------------------------------- *)

\* C1: every step of run() goes from one operation to the one that follows it in
\* the order find_solid_bc, solid_solver.run_one_step, update_indicator,
\* find_fluid_fsi, fluid_solver.run_one_step, time.increment(): none is jumped
\* over or run twice, the traction transfer starts only from the loop guard, and
\* the loop guard is reached again only by a completed time increment.
C1_StrictOrder ==
  [][ /\ pc = "while" => pc' \in {"find_solid_bc", "done"}
      /\ pc = "find_solid_bc" => pc' \in {"solid_run_one_step", "aborted"}
      /\ pc = "solid_run_one_step" => pc' = "update_indicator"
      /\ pc = "update_indicator" => pc' = "update_indicator_classify"
      /\ pc = "update_indicator_classify" => pc' = "update_indicator_restore"
      /\ pc = "update_indicator_restore" => pc' = "find_fluid_fsi"
      /\ pc = "find_fluid_fsi" => pc' \in {"fluid_run_one_step", "aborted"}
      /\ pc = "fluid_run_one_step" => pc' = "increment"
      /\ pc = "increment" => pc' = "while" /\ timestep' = timestep + 1
      /\ pc \notin {"done", "aborted"} ]_vars

\* C1's case: the traction transfer of a second iteration is about to start
C1_Witness == pc = "find_solid_bc" /\ timestep >= 1

\* C2: when the end time is N times the step size, run() stops only after
\* exactly N cycles, finished, with the current time equal to the end time, and
\* never runs more than N cycles.
C2_ExactlyNCycles ==
  \A N \in 1..MaxEnd :
    end_time = N * delta_t =>
      /\ timestep <= N
      /\ pc \in {"done", "aborted"} =>
           pc = "done" /\ timestep = N /\ time_current = end_time

\* C3: the current time never passes the end time, whatever the step size and
\* the end time are.
C3_CurrentNeverPastEnd == time_current <= end_time

\* C4: once update_indicator() has classified the fluid cells, the indicator of
\* every fluid cell is 0 or 1, and it is 1 exactly when every quadrature point
\* of the cell lies in a cell of the solid mesh displaced by the current solid
\* displacement.
C4_IndicatorIffAllInside ==
  pc \in {"update_indicator_restore", "find_fluid_fsi",
          "fluid_run_one_step", "increment"} =>
    LET displaced ==
          [n \in Vertices |->
             <<reference[n][1] + current_displacement[dim * (n - 1) + 1],
               reference[n][2] + current_displacement[dim * (n - 1) + 2]>>]
        inside(p) ==
          \E c \in SolidCells : point_inside(SolidCellVertices(displaced, c), p)
    IN  \A e \in FluidCells :
          /\ indicator[e] \in {0, 1}
          /\ indicator[e] = 1 <=>
               \A q \in 1..n_q_points : inside(quadrature_point(e, q))

\* C4's case: under a nonzero displacement one fluid cell is immersed and
\* another, with a quadrature point in the displaced solid and one outside, is not
C4_Witness ==
  /\ pc = "update_indicator_restore"
  /\ \E k \in Dofs : current_displacement[k] # 0
  /\ \E e \in FluidCells : indicator[e] = 1
  /\ \E e \in FluidCells :
       /\ indicator[e] = 0
       /\ \E q \in 1..n_q_points : point_in_mesh(vertex, quadrature_point(e, q))

\* C5: moving the solid mesh back by the displacement it was moved forward by
\* restores every vertex, and update_indicator() leaves the solid mesh at the
\* coordinates it was generated with.
C5_MoveRoundTrip ==
  [][ /\ pc = "update_indicator" =>
           move_solid_mesh(vertex', current_displacement, FALSE) = vertex
      /\ pc = "update_indicator_restore" => vertex' = reference ]_vars

\* C5's case: the backward move is about to run on a displaced mesh
C5_Witness == pc = "update_indicator_restore" /\ vertex # reference

\* C6: when find_fluid_fsi() has returned, both sequences hold exactly one entry
\* per quadrature point of every fluid cell with indicator 1, in cell order and
\* then quadrature point order, and nothing else.
C6_FsiSequences ==
  pc = "fluid_run_one_step" =>
    LET immersed == {e \in FluidCells : indicator[e] = 1}
        nth(k) ==
          CHOOSE e \in immersed : Cardinality({x \in immersed : x < e}) = k - 1
        expected ==
          [i \in 1..(Cardinality(immersed) * n_q_points) |->
             <<nth(((i - 1) \div n_q_points) + 1), ((i - 1) % n_q_points) + 1>>]
    IN  /\ Len(fsi_stress) = Cardinality(immersed) * n_q_points
        /\ Len(fsi_acceleration) = Len(fsi_stress)
        /\ fsi_stress = expected
        /\ fsi_acceleration = expected

\* C6's case: in a later step the first fluid cell is not immersed and is
\* skipped, and another cell contributes its entries
C6_Witness ==
  /\ pc = "fluid_run_one_step"
  /\ timestep >= 1
  /\ indicator[1] = 0
  /\ Len(fsi_stress) = n_q_points

\* C7: when find_solid_bc() has returned, the traction sequence holds exactly
\* one entry per face quadrature point of every solid face that is at the
\* boundary and whose boundary id has no Dirichlet condition, in cell, face and
\* point order, and nothing else.
C7_TractionSequence ==
  pc = "solid_run_one_step" =>
    LET faces ==
          {cf \in SolidCells \X (0..(faces_per_cell - 1)) :
             /\ at_boundary(cf[1], cf[2])
             /\ boundary_id(cf[1], cf[2]) \notin solid_dirichlet_bcs}
        before(a, b) == a[1] < b[1] \/ (a[1] = b[1] /\ a[2] < b[2])
        nth(k) ==
          CHOOSE cf \in faces :
            Cardinality({x \in faces : before(x, cf)}) = k - 1
        expected ==
          [i \in 1..(Cardinality(faces) * n_face_q_points) |->
             LET cf == nth(((i - 1) \div n_face_q_points) + 1)
             IN  <<cf[1], cf[2], ((i - 1) % n_face_q_points) + 1>>]
    IN  /\ Len(fluid_traction) = Cardinality(faces) * n_face_q_points
        /\ fluid_traction = expected

\* C7's case: in a later step, with the bottom and top faces Dirichlet, only the
\* two end faces of the row contribute
C7_Witness ==
  /\ pc = "solid_run_one_step"
  /\ timestep >= 1
  /\ solid_dirichlet_bcs = {2, 3}
  /\ Len(fluid_traction) = 2 * n_face_q_points

\* C8: a quadrature point the other solver's mesh does not contain is not
\* fatal: the transfer still returns, with one entry for every point it treats,
\* and run() goes on with the solver step.
C8_LookupFailureNotFatal ==
  [][ /\ ( /\ pc = "find_fluid_fsi"
           /\ \E e \in FluidCells, q \in 1..n_q_points :
                /\ indicator[e] = 1
                /\ ~SolidPointAvailable(vertex, quadrature_point(e, q)) )
         => /\ pc' = "fluid_run_one_step"
            /\ Len(fsi_stress') =
                 Cardinality({e \in FluidCells : indicator[e] = 1}) * n_q_points
      /\ ( /\ pc = "find_solid_bc"
           /\ \E c \in SolidCells, f \in 0..(faces_per_cell - 1),
                 q \in 1..n_face_q_points :
                /\ at_boundary(c, f)
                /\ boundary_id(c, f) \notin solid_dirichlet_bcs
                /\ ~FluidPointAvailable(face_quadrature_point(vertex, c, f, q)) )
         => pc' = "solid_run_one_step" ]_vars

\* C9: outside update_indicator() every solid vertex is at the coordinates the
\* mesh was generated with; the mesh is displaced only between the two
\* move_solid_mesh calls of update_indicator().
C9_DisplacedOnlyInsideUpdate ==
  pc \notin {"update_indicator_classify", "update_indicator_restore"} =>
    vertex = reference

\* C9's case: the force transfer of a later step starts after the solid has
\* taken a nonzero displacement
C9_Witness ==
  /\ pc = "find_fluid_fsi"
  /\ timestep >= 1
  /\ \E k \in Dofs : current_displacement[k] # 0

\* C10: one move_solid_mesh call changes every vertex by the displacement at its
\* dofs, once: added when moving forward, subtracted when moving back.
C10_EachVertexOnce ==
  [][ \A n \in Vertices, d \in 1..dim :
        /\ pc = "update_indicator" =>
             vertex'[n][d] = vertex[n][d] + current_displacement[dim * (n - 1) + d]
        /\ pc = "update_indicator_restore" =>
             vertex'[n][d] = vertex[n][d] - current_displacement[dim * (n - 1) + d]
    ]_vars

\* C10's case: a vertex shared by two cells has been moved forward
C10_Witness ==
  /\ pc = "update_indicator_classify"
  /\ \E n \in Vertices :
       /\ 0 < Col(n) /\ Col(n) < NSolid
       /\ vertex[n] # reference[n]

====
